---- MODULE Spec2Model ----
(***************************************************************************)
(* Predict-and-persist pipeline of the fraud detection service:            *)
(* FraudsService.predict / get_frauds over FraudRepository.add / list_all  *)
(* and the predicted_transactions table.                                   *)
(*                                                                         *)
(* Request handlers are the workers of Procs; each runs one service call   *)
(* at a time and the calls of different workers interleave at the points   *)
(* where the code talks to the model or to the database.  Monetary floats  *)
(* are written in cents.                                                   *)
(***************************************************************************)
EXTENDS Integers, Sequences, FiniteSets, TLC

\* ---------------------------------------------------------------- bounds
MaxCalls == 2        \* predict calls started in one behaviour, two server processes
MaxSeqCalls == 3     \* predict calls started in one behaviour, one server process

Procs == {"w1", "w2"}

\* ---------------------------------------------------------------- data model
None == 0            \* Python None / SQL NULL of the generated columns

TxnFields ==
    {"time_ind", "transac_type", "amount", "src_acc", "src_bal",
     "src_new_bal", "dst_acc", "dst_bal", "dst_new_bal"}

TxnA ==
    [time_ind |-> 42, transac_type |-> "TRANSFER", amount |-> 123456,
     src_acc |-> "acc123", src_bal |-> 500000, src_new_bal |-> 376544,
     dst_acc |-> "acc456", dst_bal |-> 100000, dst_new_bal |-> 223456]

TxnB ==
    [time_ind |-> 10, transac_type |-> "PAYMENT", amount |-> 25000,
     src_acc |-> "acc001", src_bal |-> 100000, src_new_bal |-> 75000,
     dst_acc |-> "acc002", dst_bal |-> 50000, dst_new_bal |-> 75000]

Transactions == {TxnA, TxnB}

\* the record built with the two account columns exchanged
TransactionRecordSwapped(t, isFraud) ==
    [time_ind |-> t.time_ind, transac_type |-> t.transac_type,
     amount |-> t.amount, src_acc |-> t.dst_acc, src_bal |-> t.src_bal,
     src_new_bal |-> t.src_new_bal, dst_acc |-> t.src_acc,
     dst_bal |-> t.dst_bal, dst_new_bal |-> t.dst_new_bal,
     id |-> None, is_fraud |-> isFraud, predicted_at |-> None]

\* TransactionRecord(**txn.dict(), is_fraud=predicted): id and predicted_at
\* keep their declared default None until the database fills them.
TransactionRecord(t, isFraud) ==
    [time_ind |-> t.time_ind, transac_type |-> t.transac_type,
     amount |-> t.amount, src_acc |-> t.src_acc, src_bal |-> t.src_bal,
     src_new_bal |-> t.src_new_bal, dst_acc |-> t.dst_acc,
     dst_bal |-> t.dst_bal, dst_new_bal |-> t.dst_new_bal,
     id |-> None, is_fraud |-> isFraud, predicted_at |-> None]

\* the transaction view with the two source balances exchanged
FromOrmBalances(rec) ==
    [f \in TxnFields |->
        IF f = "src_bal" THEN rec.src_new_bal
        ELSE IF f = "src_new_bal" THEN rec.src_bal
        ELSE rec[f]]

\* Transaction.from_orm(rec): the nine shared fields, read by name.
FromOrm(rec) == [f \in TxnFields |-> rec[f]]

TransactionAPIResponse(t, flag) == [transaction |-> t, predicted_fraud |-> flag]

\* ---------------------------------------------------------------- configuration
\* settings.FEATURE_COLS, the ordered column list handed to the service, and
\* the model loaded at startup, per deployment considered.  The first column
\* list is not in the order the fields are declared in; the second one names
\* a column that is no field of the transaction.
Configs ==
    { [cols |-> <<"amount", "transac_type", "src_bal">>, model |-> "always_true"],
      [cols |-> <<"amount", "hour_of_day">>, model |-> "large_amount"] }

\* the amount from which the "large_amount" model flags a transaction
LargeAmount == 100000

\* ---------------------------------------------------------------- feature projection
\* pd.DataFrame([txn.dict()], columns=feature_cols): one row, the listed
\* columns in the listed order; a column the dict lacks becomes a NaN cell.
Cell(t, c) ==
    IF c \in TxnFields
    THEN [col |-> c, na |-> FALSE, val |-> t[c]]
    ELSE [col |-> c, na |-> TRUE]

\* the order txn.dict() lists the fields in
TxnFieldOrder ==
    <<"time_ind", "transac_type", "amount", "src_acc", "src_bal",
      "src_new_bal", "dst_acc", "dst_bal", "dst_new_bal">>

\* the frame built without columns=: every field, in the dict's order
DataFrameAllFields(t, cols) ==
    [i \in 1..Len(TxnFieldOrder) |-> Cell(t, TxnFieldOrder[i])]

DataFrame(t, cols) == [i \in 1..Len(cols) |-> Cell(t, cols[i])]

\* model.predict(df)[0] coerced by bool(): the label of a deterministic model.
ModelLabel(kind, frame) ==
    CASE kind = "always_true" -> TRUE
      [] kind = "always_false" -> FALSE
      [] OTHER ->
           \E i \in 1..Len(frame) :
               /\ frame[i].col = "amount"
               /\ ~frame[i].na
               /\ frame[i].val >= LargeAmount

\* ---------------------------------------------------------------- state
VARIABLES
    workers,        \* the request handlers of the deployment that can run
    feature_cols,   \* FraudsService.feature_cols
    modelKind,      \* which deterministic model FraudsService.model is
    store,          \* committed rows of predicted_transactions
    seq,            \* last value of the id sequence of the table
    clock,          \* the database's NOW() when it was last read
    pc,             \* per worker: where its current service call stands
    txn,            \* predict: request.transaction
    df,             \* predict: the one-row frame given to the model
    prediction_array, \* predict: what model.predict returned
    predicted,      \* predict: the label
    db_rec,         \* predict: the TransactionRecord object
    pending,        \* predict: the row inserted by the open session, uncommitted
    response,       \* the value the service call returns
    err,            \* the exception the service call raises
    db_rows,        \* get_frauds: what list_all returned
    modelCalls,     \* per worker: model.predict invocations of the current call
    repoCalls,      \* per worker: repository calls (add, list_all) of the current call
    nCalls,         \* predict calls started so far
    okIds,          \* ids of the records of predict calls that returned
    seenOk,         \* get_frauds: okIds at the read
    quiet,          \* get_frauds: at the read, every predict started had returned
    atRead,         \* get_frauds: the committed rows at the read
    raced,          \* two sessions had an uncommitted insert at the same time
    rolledBack      \* ids of the inserts whose commit failed

vars ==
    <<workers, feature_cols, modelKind, store, seq, clock, pc, txn, df,
      prediction_array, predicted, db_rec, pending, response, err, db_rows, modelCalls,
      repoCalls, nCalls, okIds, seenOk, quiet, atRead, raced, rolledBack>>

config == <<workers, feature_cols, modelKind>>
predictLocals == <<txn, df, prediction_array, predicted, db_rec, pending>>
getLocals == <<db_rows, seenOk, quiet, atRead>>

Nil == <<>>

\* server.py starts one uvicorn process, whose event loop runs the blocking
\* service calls one after the other; several processes on one database
\* interleave theirs.
Deployments == { {"w1"}, Procs }

\* calls and clock readings considered for the deployment
CallBound == IF workers = Procs THEN MaxCalls ELSE MaxSeqCalls

Init ==
    /\ workers \in Deployments
    /\ \E c \in Configs : feature_cols = c.cols /\ modelKind = c.model
    /\ store = {}
    /\ seq = 0
    /\ clock = 1
    /\ pc = [p \in Procs |-> "idle"]
    /\ txn = [p \in Procs |-> Nil]
    /\ df = [p \in Procs |-> Nil]
    /\ prediction_array = [p \in Procs |-> Nil]
    /\ predicted = [p \in Procs |-> FALSE]
    /\ db_rec = [p \in Procs |-> Nil]
    /\ pending = [p \in Procs |-> Nil]
    /\ response = [p \in Procs |-> Nil]
    /\ err = [p \in Procs |-> ""]
    /\ db_rows = [p \in Procs |-> Nil]
    /\ modelCalls = [p \in Procs |-> 0]
    /\ repoCalls = [p \in Procs |-> 0]
    /\ nCalls = 0
    /\ okIds = {}
    /\ seenOk = [p \in Procs |-> {}]
    /\ quiet = [p \in Procs |-> FALSE]
    /\ atRead = [p \in Procs |-> {}]
    /\ raced = FALSE
    /\ rolledBack = {}

\* ---------------------------------------------------------------- database
\* an INSERT whose id does not come from the sequence
NewRowFixedId(rec, newId, now) == [rec EXCEPT !.id = 1, !.predicted_at = now]

\* INSERT of one row: id from the sequence, predicted_at from NOW().
NewRow(rec, newId, now) == [rec EXCEPT !.id = newId, !.predicted_at = now]

\* a COMMIT that replaces the rows of the same transaction (an upsert)
CommitRowUpsert(table, row) ==
    {r \in table : \E f \in TxnFields : r[f] # row[f]} \cup {row}

\* COMMIT of the session's row.
CommitRow(table, row) == table \cup {row}

\* a reload that fetches the row without its server-side defaults
SelectByIdNoDefaults(table, rid) ==
    [(CHOOSE r \in table : r.id = rid) EXCEPT !.predicted_at = None]

\* SELECT ... WHERE id = :id, the reload done by session.refresh.
SelectById(table, rid) == CHOOSE r \in table : r.id = rid

\* ---------------------------------------------------------------- predict
Fail(p, e) ==
    /\ pc' = [pc EXCEPT ![p] = "failed"]
    /\ err' = [err EXCEPT ![p] = e]

\* FraudsService.predict is entered with a validated request;
\* 1) Prepare DataFrame
PredictStart(p) ==
    /\ pc[p] = "idle"
    /\ nCalls < CallBound
    /\ \E t \in Transactions :
         /\ txn' = [txn EXCEPT ![p] = t]
         /\ df' = [df EXCEPT ![p] = DataFrame(t, feature_cols)]
    /\ pc' = [pc EXCEPT ![p] = "classify"]
    /\ nCalls' = nCalls + 1
    /\ UNCHANGED <<config, repoCalls, store, seq, clock, prediction_array, predicted,
                   db_rec, pending, response, err, getLocals, modelCalls,
                   okIds, raced, rolledBack>>

\* what model.predict can hand back for the one-row frame without raising:
\* the one label, no label at all, or more labels than rows
ModelOutputs(kind, frame) ==
    { <<ModelLabel(kind, frame)>>,
      <<>>,
      <<ModelLabel(kind, frame), FALSE>> }

\* 2) Execute model, coerce the first element, build the record to persist
ClassifyOk(p) ==
    /\ pc[p] = "classify"
    /\ modelCalls' = [modelCalls EXCEPT ![p] = @ + 1]
    /\ \E out \in ModelOutputs(modelKind, df[p]) :
         /\ Len(out) >= 1
         /\ prediction_array' = [prediction_array EXCEPT ![p] = out]
         /\ predicted' = [predicted EXCEPT ![p] = out[1]]
         /\ db_rec' = [db_rec EXCEPT ![p] = TransactionRecord(txn[p], out[1])]
    /\ pc' = [pc EXCEPT ![p] = "add"]
    /\ UNCHANGED <<config, repoCalls, store, seq, clock, txn, df, pending, response, err,
                   getLocals, nCalls, okIds, raced, rolledBack>>

\* model.predict raises, or returns an empty array and [0] raises IndexError
ClassifyFail(p) ==
    /\ pc[p] = "classify"
    /\ modelCalls' = [modelCalls EXCEPT ![p] = @ + 1]
    /\ \/ Fail(p, "ModelRaised")
       \/ <<>> \in ModelOutputs(modelKind, df[p]) /\ Fail(p, "IndexError")
    /\ UNCHANGED <<config, repoCalls, store, seq, clock, predictLocals, response,
                   getLocals, nCalls, okIds, raced, rolledBack>>

\* a dry run: the response is built without the record being inserted
InsertDryRun(p) ==
    /\ pc[p] = "add"
    /\ prediction_array' = [prediction_array EXCEPT ![p] = Nil]
    /\ response' = [response EXCEPT
                      ![p] = TransactionAPIResponse(txn[p], predicted[p])]
    /\ pc' = [pc EXCEPT ![p] = "done"]
    /\ UNCHANGED <<config, repoCalls, store, seq, clock, txn, df, predicted,
                   db_rec, pending, err, getLocals, modelCalls, nCalls, okIds,
                   raced, rolledBack>>

\* session.add(record) and the flush that session.commit() starts with:
\* the INSERT runs in the session's transaction and returns the new id;
\* NOW() has not gone back since it was last read: it reads the same tick or
\* the next one, timestamps being only compared.  prediction_array is not
\* read after the log line of step 2 and is dropped here.
Insert(p) ==
    /\ pc[p] = "add"
    /\ seq' = seq + 1
    /\ \E now \in {clock, IF clock < CallBound THEN clock + 1 ELSE clock} :
         LET row == NewRow(db_rec[p], seq + 1, now)
         IN  /\ clock' = now
             /\ pending' = [pending EXCEPT ![p] = row]
             /\ db_rec' = [db_rec EXCEPT ![p].id = row.id]
    /\ raced' = (raced \/ \E q \in Procs \ {p} : pc[q] = "commit")
    /\ prediction_array' = [prediction_array EXCEPT ![p] = Nil]
    /\ pc' = [pc EXCEPT ![p] = "commit"]
    /\ repoCalls' = [repoCalls EXCEPT ![p] = @ + 1]
    /\ UNCHANGED <<config, store, txn, df, predicted, response, err,
                   getLocals, modelCalls, nCalls, okIds, rolledBack>>

\* a failed INSERT answered by calling the repository again
InsertFailRetry(p) ==
    /\ pc[p] = "add"
    /\ repoCalls[p] < 2
    /\ repoCalls' = [repoCalls EXCEPT ![p] = @ + 1]
    /\ UNCHANGED <<config, store, seq, clock, pc, err, predictLocals, response,
                   getLocals, modelCalls, nCalls, okIds, raced, rolledBack>>

\* the INSERT is refused (a value out of the column's range) or the database
\* is unreachable
InsertFail(p) ==
    /\ pc[p] = "add"
    /\ Fail(p, "StorageError")
    /\ prediction_array' = [prediction_array EXCEPT ![p] = Nil]
    /\ repoCalls' = [repoCalls EXCEPT ![p] = @ + 1]
    /\ UNCHANGED <<config, store, seq, clock, txn, df, predicted, db_rec,
                   pending, response, getLocals, modelCalls, nCalls, okIds,
                   raced, rolledBack>>

\* the COMMIT that ends session.commit(): the row becomes visible
Commit(p) ==
    /\ pc[p] = "commit"
    /\ store' = CommitRow(store, pending[p])
    /\ pending' = [pending EXCEPT ![p] = Nil]
    /\ pc' = [pc EXCEPT ![p] = "refresh"]
    /\ UNCHANGED <<config, repoCalls, seq, clock, txn, df, prediction_array, predicted,
                   db_rec, response, err, getLocals, modelCalls, nCalls, okIds, raced, rolledBack>>

\* a failed COMMIT that leaves the inserted row in the table
CommitFailVisible(p) ==
    /\ pc[p] = "commit"
    /\ store' = store \cup {pending[p]}
    /\ pending' = [pending EXCEPT ![p] = Nil]
    /\ rolledBack' = rolledBack \cup {pending[p].id}
    /\ Fail(p, "StorageError")
    /\ UNCHANGED <<config, repoCalls, seq, clock, txn, df, prediction_array,
                   predicted, db_rec, response, getLocals, modelCalls, nCalls,
                   okIds, raced>>

\* the COMMIT fails: the transaction is rolled back, the id stays used
CommitFail(p) ==
    /\ pc[p] = "commit"
    /\ pending' = [pending EXCEPT ![p] = Nil]
    /\ rolledBack' = rolledBack \cup {pending[p].id}
    /\ Fail(p, "StorageError")
    /\ UNCHANGED <<config, repoCalls, store, seq, clock, txn, df, prediction_array,
                   predicted, db_rec, response, getLocals, modelCalls, nCalls,
                   okIds, raced>>

\* session.refresh(record): reload every column of the row by primary key;
\* add returns and predict does 4) Build response
Refresh(p) ==
    /\ pc[p] = "refresh"
    /\ db_rec' = [db_rec EXCEPT ![p] = SelectById(store, db_rec[p].id)]
    /\ response' = [response EXCEPT
                      ![p] = TransactionAPIResponse(txn[p], predicted[p])]
    /\ okIds' = okIds \cup {db_rec[p].id}
    /\ pc' = [pc EXCEPT ![p] = "done"]
    /\ UNCHANGED <<config, repoCalls, store, seq, clock, txn, df, prediction_array,
                   predicted, pending, err, getLocals, modelCalls, nCalls, raced, rolledBack>>

\* the SELECT of session.refresh fails after the COMMIT went through
RefreshFail(p) ==
    /\ pc[p] = "refresh"
    /\ Fail(p, "StorageError")
    /\ UNCHANGED <<config, repoCalls, store, seq, clock, predictLocals, response,
                   getLocals, modelCalls, nCalls, okIds, raced, rolledBack>>

\* ---------------------------------------------------------------- list_all
IsDescending(rows) ==
    \A i, j \in 1..Len(rows) : i < j => rows[i].predicted_at >= rows[j].predicted_at

\* the same query with ORDER BY predicted_at ASC
ListAllAscending(table) ==
    { rows \in [1..Cardinality(table) -> table] :
        /\ \A i, j \in 1..Cardinality(table) : i # j => rows[i] # rows[j]
        /\ \A i, j \in 1..Cardinality(table) :
              i < j => rows[i].predicted_at <= rows[j].predicted_at }

\* SELECT * FROM predicted_transactions ORDER BY predicted_at DESC: every
\* committed row once; the database breaks ties as it likes.
ListAll(table) ==
    { rows \in [1..Cardinality(table) -> table] :
        /\ \A i, j \in 1..Cardinality(table) : i # j => rows[i] # rows[j]
        /\ IsDescending(rows) }

\* ---------------------------------------------------------------- get_frauds
\* a Python dict: the items in insertion order; assigning to a key that is
\* present replaces its value in place, a new key goes to the end.
HasKey(d, k) == \E i \in 1..Len(d) : d[i].key = k

\* a mapping that keeps its items sorted by key
DictSetSorted(d, k, v) ==
    LET below == SelectSeq(d, LAMBDA e : e.key < k)
        above == SelectSeq(d, LAMBDA e : e.key > k)
    IN  below \o <<[key |-> k, value |-> v]>> \o above

DictSet(d, k, v) ==
    IF HasKey(d, k)
    THEN [i \in 1..Len(d) |-> IF d[i].key = k THEN [key |-> k, value |-> v] ELSE d[i]]
    ELSE Append(d, [key |-> k, value |-> v])

Keys(d) == {d[i].key : i \in 1..Len(d)}

Lookup(d, k) == d[CHOOSE i \in 1..Len(d) : d[i].key = k].value

\* records filed under their timestamp
KeyOfTimestamp(rec) == rec.predicted_at

\* the key under which get_frauds files a record
KeyOf(rec) == rec.id

\* the loop stopping one record short
RECURSIVE MapRowsShort(_, _)
MapRowsShort(rows, n) ==
    IF n <= 1
    THEN <<>>
    ELSE DictSet(MapRowsShort(rows, n - 1), KeyOf(rows[n - 1]),
                 TransactionAPIResponse(FromOrm(rows[n - 1]), rows[n - 1].is_fraud))

\* for rec in db_rows: result[rec.id] = TransactionAPIResponse(from_orm(rec), rec.is_fraud)
RECURSIVE MapRows(_, _)
MapRows(rows, n) ==
    IF n = 0
    THEN <<>>
    ELSE DictSet(MapRows(rows, n - 1), KeyOf(rows[n]),
                 TransactionAPIResponse(FromOrm(rows[n]), rows[n].is_fraud))

TransactionsAPIResponse(d) == [transactions |-> d]

GetStart(p) ==
    /\ pc[p] = "idle"
    /\ pc' = [pc EXCEPT ![p] = "list_all"]
    /\ UNCHANGED <<config, repoCalls, store, seq, clock, predictLocals, response, err,
                   getLocals, modelCalls, nCalls, okIds, raced, rolledBack>>

\* db_rows = self.repo.list_all(), then the loop over db_rows and the final
\* TransactionsAPIResponse
ListAllOk(p) ==
    /\ pc[p] = "list_all"
    /\ \E rows \in ListAll(store) :
         /\ db_rows' = [db_rows EXCEPT ![p] = rows]
         /\ response' = [response EXCEPT
                           ![p] = TransactionsAPIResponse(MapRows(rows, Len(rows)))]
    /\ quiet' = [quiet EXCEPT ![p] = (Cardinality(okIds) = nCalls)]
    /\ atRead' = [atRead EXCEPT ![p] = store]
    /\ seenOk' = [seenOk EXCEPT ![p] = okIds]
    /\ pc' = [pc EXCEPT ![p] = "got"]
    /\ repoCalls' = [repoCalls EXCEPT ![p] = @ + 1]
    /\ UNCHANGED <<config, store, seq, clock, predictLocals, err,
                   modelCalls, nCalls, okIds, raced, rolledBack>>

\* the SELECT fails
ListAllFail(p) ==
    /\ pc[p] = "list_all"
    /\ pc' = [pc EXCEPT ![p] = "get_failed"]
    /\ err' = [err EXCEPT ![p] = "StorageError"]
    /\ repoCalls' = [repoCalls EXCEPT ![p] = @ + 1]
    /\ UNCHANGED <<config, store, seq, clock, predictLocals, response,
                   getLocals, modelCalls, nCalls, okIds, raced, rolledBack>>

\* the handler hands its response or its exception to the framework and
\* takes the next request
Return(p) ==
    /\ pc[p] \in {"done", "failed", "got", "get_failed"}
    /\ pc' = [pc EXCEPT ![p] = "idle"]
    /\ txn' = [txn EXCEPT ![p] = Nil]
    /\ df' = [df EXCEPT ![p] = Nil]
    /\ prediction_array' = [prediction_array EXCEPT ![p] = Nil]
    /\ predicted' = [predicted EXCEPT ![p] = FALSE]
    /\ db_rec' = [db_rec EXCEPT ![p] = Nil]
    /\ pending' = [pending EXCEPT ![p] = Nil]
    /\ response' = [response EXCEPT ![p] = Nil]
    /\ err' = [err EXCEPT ![p] = ""]
    /\ db_rows' = [db_rows EXCEPT ![p] = Nil]
    /\ modelCalls' = [modelCalls EXCEPT ![p] = 0]
    /\ repoCalls' = [repoCalls EXCEPT ![p] = 0]
    /\ seenOk' = [seenOk EXCEPT ![p] = {}]
    /\ quiet' = [quiet EXCEPT ![p] = FALSE]
    /\ atRead' = [atRead EXCEPT ![p] = {}]
    /\ UNCHANGED <<config, store, seq, clock, nCalls, okIds, raced, rolledBack>>

\* ---------------------------------------------------------------- specification
Next ==
    \/ \E p \in workers : PredictStart(p)
    \/ \E p \in workers : ClassifyOk(p)
    \/ \E p \in workers : ClassifyFail(p)
    \/ \E p \in workers : Insert(p)
    \/ \E p \in workers : InsertFail(p)
    \/ \E p \in workers : Commit(p)
    \/ \E p \in workers : CommitFail(p)
    \/ \E p \in workers : Refresh(p)
    \/ \E p \in workers : RefreshFail(p)
    \/ \E p \in workers : GetStart(p)
    \/ \E p \in workers : ListAllOk(p)
    \/ \E p \in workers : ListAllFail(p)
    \/ \E p \in workers : Return(p)

Spec == Init /\ [][Next]_vars

\* ================================================================ properties
PredictPcs == {"classify", "add", "commit", "refresh", "done", "failed"}
GetPcs == {"list_all", "got", "get_failed"}

\* the mapping a completed get_frauds call of worker p returned
Result(p) == response[p].transactions

\* the stored rows that carry the id of the record worker p's call built
RowsOf(p) == {r \in store : r.id = db_rec[p].id}

UnknownCols == {feature_cols[i] : i \in 1..Len(feature_cols)} \ TxnFields

\* ---------------------------------------------------------------- C1
\* C1: a successful predict(T) leaves exactly one stored record for the
\* call; its nine transaction fields are T's and its is_fraud is the label
\* in the response; of the steps of a predict call only the commit changes
\* the table, and it adds exactly one row.
PredictPersistsOneRecord ==
    /\ [](\A p \in Procs :
            pc[p] = "done" =>
              /\ Cardinality(RowsOf(p)) = 1
              /\ \A r \in RowsOf(p) :
                   /\ \A f \in TxnFields : r[f] = txn[p][f]
                   /\ r.is_fraud = response[p].predicted_fraud
              /\ response[p].transaction = txn[p])
    /\ [][\A p \in Procs :
            (pc[p] \in PredictPcs \ {"done", "failed"} /\ pc'[p] # pc[p]) =>
              IF pc'[p] = "refresh"
              THEN /\ Cardinality(store') = Cardinality(store) + 1
                   /\ store \subseteq store'
              ELSE store' = store]_vars

\* a second successful predict, for the other transaction and the other label
PredictPersistsOneRecordWitness ==
    \E p \in Procs :
        /\ pc[p] = "done"
        /\ Cardinality(store) >= 2
        /\ \E r \in RowsOf(p), o \in store :
               /\ o.id # r.id
               /\ o.amount # r.amount
               /\ o.is_fraud # r.is_fraud

\* ---------------------------------------------------------------- C2
\* C2: predict is all-or-nothing: a predict call that failed, at whatever
\* step, has no record in the store; every stored record belongs to a call
\* that returned a response or is still between its commit and its return.
PredictAllOrNothing ==
    /\ \A p \in Procs :
          (pc[p] = "failed" /\ err[p] = "StorageError") =>
              \A r \in store : r.id # db_rec[p].id
    /\ Cardinality(store) =
          Cardinality(okIds) + Cardinality({p \in Procs : pc[p] = "refresh"})

\* ---------------------------------------------------------------- C3
\* C3: with a feature column that is no transaction field, predict fails
\* before the model is invoked: the model is never called, the call never
\* reaches the insert, and nothing is stored.
SchemaMismatchBeforeModel ==
    UnknownCols # {} =>
        /\ \A p \in Procs :
              /\ modelCalls[p] = 0
              /\ pc[p] \notin {"add", "commit", "refresh", "done"}
        /\ store = {}

\* ---------------------------------------------------------------- C4
\* C4: the mapping a get_frauds call returns has pairwise distinct ids and
\* holds the record of every predict call that had returned when the table
\* was read; when the predict calls so far are N calls that all returned,
\* it has exactly those N entries.
GetFraudsCountsPredicts ==
    \A p \in Procs :
        pc[p] = "got" =>
            /\ Cardinality(Keys(Result(p))) = Len(Result(p))
            /\ seenOk[p] \subseteq Keys(Result(p))
            /\ quiet[p] =>
                  /\ Len(Result(p)) = Cardinality(seenOk[p])
                  /\ Keys(Result(p)) = seenOk[p]

\* three predict calls, one after the other, then the read
GetFraudsCountsPredictsWitness ==
    \E p \in Procs :
        /\ pc[p] = "got"
        /\ quiet[p]
        /\ Len(Result(p)) = 3

\* ---------------------------------------------------------------- C5
\* C5: stored ids are never shared by two rows and two finished predict
\* calls never hold the same id; with a model that returns true, a
\* get_frauds after two predict calls that both returned holds exactly
\* their two entries, both flagged, however their steps interleaved.
ConcurrentPredictsBothStored ==
    /\ \A r1, r2 \in store : r1.id = r2.id => r1 = r2
    /\ \A p, q \in Procs :
          (p # q /\ pc[p] = "done" /\ pc[q] = "done") =>
              /\ db_rec[p].id # db_rec[q].id
              /\ RowsOf(p) # {} /\ RowsOf(q) # {}
    /\ \A p \in Procs :
          (pc[p] = "got" /\ quiet[p] /\ Cardinality(seenOk[p]) = 2
              /\ modelKind = "always_true") =>
              /\ Len(Result(p)) = 2
              /\ Keys(Result(p)) = seenOk[p]
              /\ \A k \in Keys(Result(p)) : Lookup(Result(p), k).predicted_fraud

\* two sessions had their inserts open at once, both calls returned, and a
\* later get_frauds holds the two flagged entries
ConcurrentPredictsBothStoredWitness ==
    /\ raced
    /\ modelKind = "always_true"
    /\ \E p \in Procs :
          /\ pc[p] = "got"
          /\ quiet[p]
          /\ Cardinality(seenOk[p]) = 2
          /\ Len(Result(p)) = 2

\* ---------------------------------------------------------------- C6
\* C6: list_all returns every committed row exactly once, each row no older
\* than the row after it.
ListAllNewestFirst ==
    \A p \in Procs :
        pc[p] = "got" =>
            /\ Len(db_rows[p]) = Cardinality(atRead[p])
            /\ {db_rows[p][i] : i \in 1..Len(db_rows[p])} = atRead[p]
            /\ \A i \in 1..(Len(db_rows[p]) - 1) :
                  db_rows[p][i].predicted_at >= db_rows[p][i + 1].predicted_at

\* rows inserted at times 1 < 2 < 3 come back as 3, 2, 1
ListAllNewestFirstWitness ==
    \E p \in Procs :
        /\ pc[p] = "got"
        /\ Len(db_rows[p]) = 3
        /\ db_rows[p][1].predicted_at = 3 /\ db_rows[p][1].id = 3
        /\ db_rows[p][2].predicted_at = 2 /\ db_rows[p][2].id = 2
        /\ db_rows[p][3].predicted_at = 1 /\ db_rows[p][3].id = 1

\* ---------------------------------------------------------------- C7
\* C7: the record predict builds carries neither id nor predicted_at (the
\* transaction has no such fields); once add has returned, the record holds
\* the id and predicted_at of its stored row, the row every list_all reports.
GeneratedFieldsFromStore ==
    /\ TxnFields \cap {"id", "predicted_at"} = {}
    /\ \A p \in Procs :
          pc[p] = "add" =>
              db_rec[p].id = None /\ db_rec[p].predicted_at = None
    /\ \A p \in Procs :
          pc[p] = "done" =>
              /\ db_rec[p].id # None
              /\ db_rec[p].predicted_at # None
              /\ \A rows \in ListAll(store) :
                    \E i \in 1..Len(rows) :
                        /\ rows[i].id = db_rec[p].id
                        /\ rows[i].predicted_at = db_rec[p].predicted_at

\* add returned a record whose id and timestamp are not those of the first insert
GeneratedFieldsFromStoreWitness ==
    \E p \in Procs :
        /\ pc[p] = "done"
        /\ db_rec[p].id > 1
        /\ db_rec[p].predicted_at > 1

\* ---------------------------------------------------------------- C8
\* C8: no step removes or changes a stored row: every row of the table is a
\* row of the table after the step.
StoreAppendOnly == [][store \subseteq store']_vars

\* rows read by a get_frauds are still there after a later predict committed
StoreAppendOnlyWitness ==
    \E p \in Procs :
        /\ pc[p] = "got"
        /\ atRead[p] # {}
        /\ atRead[p] \subseteq store
        /\ atRead[p] # store

\* ---------------------------------------------------------------- C9
AsSet(d) == {d[i] : i \in 1..Len(d)}

\* C9: two get_frauds results read from the same table contents have the
\* same entries, and no step of a get_frauds call changes the table.
RetrievalIdempotent ==
    /\ [](\A p, q \in Procs :
            (pc[p] = "got" /\ pc[q] = "got" /\ atRead[p] = atRead[q]) =>
                AsSet(Result(p)) = AsSet(Result(q)))
    /\ [][\A p \in Procs :
            (pc[p] \in GetPcs /\ pc'[p] # pc[p]) => store' = store]_vars

\* two reads of the same two rows, which tie on predicted_at and came back
\* in different orders
RetrievalIdempotentWitness ==
    \E p, q \in Procs :
        /\ p # q
        /\ pc[p] = "got" /\ pc[q] = "got"
        /\ atRead[p] = atRead[q]
        /\ Len(db_rows[p]) = 2
        /\ db_rows[p] # db_rows[q]

\* ---------------------------------------------------------------- C10
\* predicted_at of the row of table whose id is k
TimeOf(table, k) == (CHOOSE r \in table : r.id = k).predicted_at

\* C10: the entries of the mapping get_frauds returns, in the mapping's own
\* order, are in non-increasing predicted_at order.
MappingNewestFirst ==
    \A p \in Procs :
        pc[p] = "got" =>
            \A i, j \in 1..Len(Result(p)) :
                i < j =>
                    TimeOf(atRead[p], Result(p)[i].key)
                        >= TimeOf(atRead[p], Result(p)[j].key)

\* a mapping whose first entry is strictly newer than its last
MappingNewestFirstWitness ==
    \E p \in Procs :
        /\ pc[p] = "got"
        /\ Len(Result(p)) >= 2
        /\ TimeOf(atRead[p], Result(p)[1].key)
              > TimeOf(atRead[p], Result(p)[Len(Result(p))].key)

\* ---------------------------------------------------------------- C11
\* C11: when the model raises or returns a result that is not the one label
\* for the one row, predict ends in an inference error: the model was
\* invoked once, no response exists, and no result of another shape gets
\* past the model step.
InferenceFailureSurfaced ==
    \A p \in Procs :
        /\ modelCalls[p] <= 1
        /\ (pc[p] = "failed" /\ err[p] \in {"ModelRaised", "IndexError"}) =>
              modelCalls[p] = 1 /\ response[p] = Nil
        /\ pc[p] = "add" => Len(prediction_array[p]) = 1

\* ---------------------------------------------------------------- C12
\* C12: a service call goes to the repository at most once; a predict or a
\* get_frauds whose storage operation failed has raised the storage error
\* after that one repository call and holds no response, and a predict that
\* returned went to the repository exactly once.
StorageFailureSurfaced ==
    \A p \in Procs :
        /\ repoCalls[p] <= 1
        /\ (pc[p] = "failed" /\ err[p] = "StorageError") =>
              repoCalls[p] = 1 /\ response[p] = Nil
        /\ pc[p] = "get_failed" =>
              /\ err[p] = "StorageError"
              /\ repoCalls[p] = 1
              /\ response[p] = Nil
        /\ pc[p] \in {"done", "got"} => repoCalls[p] = 1

\* a predict whose insert failed beside a get_frauds whose read failed
StorageFailureSurfacedWitness ==
    \E p, q \in Procs :
        /\ pc[p] = "failed" /\ err[p] = "StorageError" /\ db_rec[p].id = None
        /\ pc[q] = "get_failed"

\* ---------------------------------------------------------------- C13
\* C13: the mapping get_frauds returns has one entry per record list_all
\* returned, filed under the record's id, whose transaction is the record's
\* nine transaction fields and whose predicted_fraud is the record's
\* is_fraud; it has as many entries as list_all returned records.
GetFraudsReshapesRecords ==
    \A p \in Procs :
        pc[p] = "got" =>
            /\ Len(Result(p)) = Len(db_rows[p])
            /\ \A i \in 1..Len(db_rows[p]) :
                  /\ Cardinality({j \in 1..Len(Result(p)) :
                                     Result(p)[j].key = db_rows[p][i].id}) = 1
                  /\ LET entry == Lookup(Result(p), db_rows[p][i].id)
                     IN  /\ DOMAIN entry.transaction = TxnFields
                         /\ \A f \in TxnFields :
                               entry.transaction[f] = db_rows[p][i][f]
                         /\ entry.predicted_fraud = db_rows[p][i].is_fraud

\* a mapping of three records, flagged and unflagged ones among them
GetFraudsReshapesRecordsWitness ==
    \E p \in Procs :
        /\ pc[p] = "got"
        /\ Len(db_rows[p]) = 3
        /\ \E i, j \in 1..3 :
              db_rows[p][i].is_fraud /\ ~db_rows[p][j].is_fraud

\* ---------------------------------------------------------------- C14
PredictOrder ==
    { <<"idle", "classify">>, <<"classify", "add">>, <<"classify", "failed">>,
      <<"add", "commit">>, <<"add", "failed">>, <<"commit", "refresh">>,
      <<"commit", "failed">>, <<"refresh", "done">>, <<"refresh", "failed">> }

\* C14: a predict call projects, then classifies, then adds, then responds:
\* the frame exists before the model is called, the repository is called
\* only after the one model call returned a label, a response exists only
\* once the call's row is committed and it carries the request's
\* transaction, which no step of the call changes.
PredictStepOrder ==
    /\ [](\A p \in Procs :
            /\ pc[p] = "classify" =>
                  /\ Len(df[p]) = Len(feature_cols)
                  /\ modelCalls[p] = 0 /\ repoCalls[p] = 0
            /\ pc[p] = "add" => modelCalls[p] = 1 /\ repoCalls[p] = 0
            /\ pc[p] \in {"commit", "refresh"} =>
                  /\ modelCalls[p] = 1 /\ repoCalls[p] = 1
                  /\ response[p] = Nil
            /\ pc[p] = "commit" => pending[p].is_fraud = predicted[p]
            /\ pc[p] = "done" =>
                  /\ modelCalls[p] = 1 /\ repoCalls[p] = 1
                  /\ RowsOf(p) # {}
                  /\ \A r \in RowsOf(p) : r.is_fraud = predicted[p]
                  /\ response[p] = TransactionAPIResponse(txn[p], predicted[p]))
    /\ [][\A p \in Procs :
            (pc[p] \in PredictPcs \ {"done", "failed"} /\ pc'[p] # pc[p]) =>
                /\ <<pc[p], pc'[p]>> \in PredictOrder
                /\ txn'[p] = txn[p]
                /\ pc'[p] = "done" => \E r \in store : r.id = db_rec[p].id]_vars

\* a predict that returned a flagged response after one model call and one add
PredictStepOrderWitness ==
    \E p \in Procs :
        /\ pc[p] = "done"
        /\ modelCalls[p] = 1 /\ repoCalls[p] = 1
        /\ response[p].predicted_fraud
        /\ RowsOf(p) # {}

\* ---------------------------------------------------------------- C15
\* C15: when every configured column is a transaction field, the one row
\* given to the model has exactly the configured columns in the configured
\* order, each holding the transaction's field of that name, and the
\* request's transaction is still one of the submitted ones.
ProjectionKeepsColumnOrder ==
    \A p \in Procs :
        (pc[p] \in PredictPcs /\ UnknownCols = {}) =>
            /\ Len(df[p]) = Len(feature_cols)
            /\ \A i \in 1..Len(feature_cols) :
                  /\ df[p][i].col = feature_cols[i]
                  /\ ~df[p][i].na
                  /\ df[p][i].val = txn[p][feature_cols[i]]
            /\ txn[p] \in Transactions

\* the model was given amount, then the type, then the source balance of TxnB
ProjectionKeepsColumnOrderWitness ==
    \E p \in Procs :
        /\ pc[p] = "add"
        /\ Len(df[p]) = 3
        /\ df[p][1].col = "amount" /\ df[p][1].val = 25000
        /\ df[p][2].col = "transac_type" /\ df[p][2].val = "PAYMENT"
        /\ df[p][3].col = "src_bal" /\ df[p][3].val = 100000

\* ---------------------------------------------------------------- C16
\* C16: every row of the table, and every row a list_all returned, has an id
\* and a predicted_at and was committed; the row of an insert that is still
\* uncommitted, or whose commit failed, is in neither.
OnlyCommittedRowsVisible ==
    /\ \A r \in store :
          /\ r.id # None /\ r.predicted_at # None
          /\ r.id \notin rolledBack
          /\ \A q \in Procs : pc[q] = "commit" => r.id # pending[q].id
    /\ \A p \in Procs :
          pc[p] = "got" =>
              \A i \in 1..Len(db_rows[p]) :
                  /\ db_rows[p][i] \in atRead[p]
                  /\ db_rows[p][i].id # None
                  /\ db_rows[p][i].predicted_at # None
                  /\ db_rows[p][i].id \notin rolledBack
                  /\ \A q \in Procs :
                        pc[q] = "commit" => db_rows[p][i].id # pending[q].id
    /\ \A q \in Procs : pc[q] = "add" => db_rec[q].id = None

\* a reader holds the one committed row while another insert is still open,
\* with an id below the committed one
OnlyCommittedRowsVisibleWitness ==
    \E p, q \in Procs :
        /\ pc[p] = "got"
        /\ Len(db_rows[p]) = 1
        /\ pc[q] = "commit"
        /\ pending[q].id < db_rows[p][1].id

====
